---- MODULE Spec2Model ----
(***************************************************************************)
(* The notebooks of the repository as state machines.  A notebook is a     *)
(* list of code cells run by one kernel; the cells call the SageMaker SDK, *)
(* which starts remote operations (uploads, training and compilation jobs, *)
(* endpoints) and waits for them.  The state is the kernel (position,      *)
(* bindings), the remote service (operations in progress, endpoints,       *)
(* experiments, buckets) and the local files the cells read and write.     *)
(***************************************************************************)
EXTENDS Integers, Sequences, FiniteSets, TLC

VARIABLES
    nb,          \* the notebook the kernel runs
    pc,          \* index of the current step in Cells(nb)
    kernel,      \* "idle" | "blocked" (inside a blocking SDK call) | "stopped" (a cell raised)
    blocked_on,  \* the remote operation the kernel waits for, or NoCall
    i,           \* iterations done of the current `for i in range(n)` loop
    last,        \* the step the kernel executed last and whether it succeeded
    running,     \* remote operations started and not yet finished
    endpoints,   \* names of the endpoints in service
    predictors,  \* kernel bindings: predictor variable -> endpoint name
    log,         \* history of the SDK calls and pickle reads: issue / return / raise events
    experiments, \* names of the experiments the service holds
    customer_churn_experiment,  \* kernel binding of the experiment cell
    pickle,      \* content of pickled_data/builtin_bucket_name.pickle, or NoName
    bucket_name, \* kernel binding of the bucket cell
    buckets,     \* names of the S3 buckets created
    uuids,       \* number of uuid4() values drawn so far
    images,      \* the .jpg files under ./data_structured
    lst,         \* content of train.lst and val.lst: split -> sequence of lines
    sm_installed,    \* version of the sagemaker package installed in the environment
    sm_running,      \* sagemaker.__version__ of the module the kernel imported, or NoVersion
    sm_initial,      \* the version installed when the session started
    os_imported,     \* whether `import os` ran in this kernel
    orig_file,       \* content of orig_sm_version.txt (a string), or NoFile
    execs,       \* number of cells the user picked by hand
    mobilenet,   \* names of the models exported under ./mobilenet
    archive,     \* names of the models inside mobilenet.tar.gz, or NoArchive
    s3_model,    \* names of the models inside the archive uploaded to S3, or NoArchive
    served,      \* endpoint -> the models it serves and its default model name
    jobs         \* the training jobs created, each with its estimator's configuration

kernelVars == <<pc, kernel, blocked_on, i, last, predictors>>
remoteVars == <<running, endpoints>>
expVars    == <<experiments, customer_churn_experiment>>
bucketVars == <<pickle, bucket_name, buckets, uuids>>
lstVars    == <<images, lst>>
sdkVars    == <<sm_installed, sm_running, sm_initial, os_imported, orig_file>>
tfsVars    == <<mobilenet, archive, s3_model, served>>
vars == <<nb, kernelVars, remoteVars, log, expVars, bucketVars, lstVars, sdkVars, execs,
          tfsVars, jobs>>

(***************************************************************************)
(* Bounds of the model.                                                    *)
(***************************************************************************)
\* Largest major version of the sagemaker package considered.
MaxMajor == 11
\* Number of cells the user may pick by hand in one session.
MaxExecs == 3

NoCall    == [op |-> "none", tgt |-> "none", at |-> 0, it |-> 0]
NoStep    == [op |-> "none", ok |-> FALSE]
NoName    == "none"
NoVersion == <<>>
NoFile    == <<>>

(***************************************************************************)
(* Python strings of version numbers.  A string is a sequence of           *)
(* characters; str comparison is lexicographic by code point: "." (46)     *)
(* sorts before "0".."9" (48..57), which sort before "a".."z" (97..122).   *)
(***************************************************************************)
DigitChars == <<"0", "1", "2", "3", "4", "5", "6", "7", "8", "9">>
Letters    == <<"a", "c", "d", "g", "o", "t">>
CharOrder  == <<".">> \o DigitChars \o Letters

Ord(c) == CHOOSE k \in 1..Len(CharOrder) : CharOrder[k] = c

RECURSIVE Digits(_)
Digits(n) == IF n < 10 THEN <<DigitChars[n + 1]>>
             ELSE Digits(n \div 10) \o <<DigitChars[(n % 10) + 1]>>

\* str of a version <<major, minor, patch>>, as sagemaker.__version__ holds it
VersionStr(v) == Digits(v[1]) \o <<".">> \o Digits(v[2]) \o <<".">> \o Digits(v[3])

\* Python's s < t on str
RECURSIVE StrLess(_, _)
StrLess(s, t) ==
    IF t = <<>> THEN FALSE
    ELSE IF s = <<>> THEN TRUE
    ELSE IF Ord(Head(s)) < Ord(Head(t)) THEN TRUE
    ELSE IF Ord(Head(s)) > Ord(Head(t)) THEN FALSE
    ELSE StrLess(Tail(s), Tail(t))

StrGE(s, t) == ~StrLess(s, t)

\* pip's reading of a version string: the numbers between the dots
DigitValue(c) == Ord(c) - 2

RECURSIVE ParseFrom(_, _, _)
ParseFrom(s, acc, cur) ==
    IF s = <<>> THEN Append(acc, cur)
    ELSE IF Head(s) = "." THEN ParseFrom(Tail(s), Append(acc, cur), 0)
    ELSE ParseFrom(Tail(s), acc, cur * 10 + DigitValue(Head(s)))

ParseVersion(s) == ParseFrom(s, <<>>, 0)

\* pip's order on versions (PEP 440, release segments compared as numbers)
VersionLess(a, b) ==
    \/ a[1] < b[1]
    \/ a[1] = b[1] /\ a[2] < b[2]
    \/ a[1] = b[1] /\ a[2] = b[2] /\ a[3] < b[3]

\* The versions the package index offers.
Index == {<<M, m, p>> : M \in 1..MaxMajor, m \in {0, 14, 72}, p \in {0, 2}}

\* "sagemaker>=1.14.2,<2"
Requirement(v) == ~VersionLess(v, <<1, 14, 2>>) /\ VersionLess(v, <<2, 0, 0>>)

(***************************************************************************)
(* The code cells of each notebook that act on the modelled state, in      *)
(* document order.  A step is one SDK call or one whole cell:              *)
(*   line - its first source line,  op - the operation,                    *)
(*   tgt  - the object it acts on,  var - the name it binds ("" if none),  *)
(*   n    - how often the enclosing `for i in range(n)` runs it.           *)
(***************************************************************************)
Step(line, op, tgt, var, n) == [line |-> line, op |-> op, tgt |-> tgt, var |-> var, n |-> n]

\* NeoCells without its last cell: the compiled model's endpoint is never deleted.
NeoCellsNoCleanup == <<
    Step(72,  "upload",          "data",                "inputs",              1),
    Step(127, "fit",             "mnist_estimator",     "",                    1),
    Step(154, "deploy",          "mnist_estimator",     "mnist_predictor",     1),
    Step(179, "predict",         "mnist_predictor",     "predict_response",    10),
    Step(201, "delete_endpoint", "mnist_predictor",     "",                    1),
    Step(223, "compile_model",   "mnist_estimator",     "optimized_estimator", 1),
    Step(261, "deploy",          "optimized_estimator", "optimized_predictor", 1),
    Step(285, "predict",         "optimized_predictor", "predict_response",    10) >>

\* sagemaker_neo_compilation_jobs/tensorflow_distributed_mnist
NeoCells == <<
    Step(72,  "upload",          "data",                "inputs",              1),
    Step(127, "fit",             "mnist_estimator",     "",                    1),
    Step(154, "deploy",          "mnist_estimator",     "mnist_predictor",     1),
    Step(179, "predict",         "mnist_predictor",     "predict_response",    10),
    Step(201, "delete_endpoint", "mnist_predictor",     "",                    1),
    Step(223, "compile_model",   "mnist_estimator",     "optimized_estimator", 1),
    Step(261, "deploy",          "optimized_estimator", "optimized_predictor", 1),
    Step(285, "predict",         "optimized_predictor", "predict_response",    10),
    Step(307, "delete_endpoint", "optimized_predictor", "",                    1) >>

\* Inf1Cells with the compile cell placed before the training cell.
Inf1CellsCompileFirst == <<
    Step(35,  "setup",           "sagemaker",           "orig_sm_version",     1),
    Step(69,  "imports",         "os",                  "",                    1),
    Step(117, "upload",          "data",                "inputs",              1),
    Step(216, "compile_model",   "mnist_estimator",     "optimized_estimator", 1),
    Step(180, "fit",             "mnist_estimator",     "",                    1),
    Step(237, "deploy",          "optimized_estimator", "optimized_predictor", 1),
    Step(293, "predict",         "optimized_predictor", "predict_response",    10),
    Step(317, "delete_endpoint", "optimized_predictor", "",                    1),
    Step(333, "rollback",        "sagemaker",           "orig_sm_version",     1) >>

\* deploy_tensorflow_model_on_Inf1_instance
Inf1Cells == <<
    Step(35,  "setup",           "sagemaker",           "orig_sm_version",     1),
    Step(69,  "imports",         "os",                  "",                    1),
    Step(117, "upload",          "data",                "inputs",              1),
    Step(180, "fit",             "mnist_estimator",     "",                    1),
    Step(216, "compile_model",   "mnist_estimator",     "optimized_estimator", 1),
    Step(237, "deploy",          "optimized_estimator", "optimized_predictor", 1),
    Step(293, "predict",         "optimized_predictor", "predict_response",    10),
    Step(317, "delete_endpoint", "optimized_predictor", "",                    1),
    Step(333, "rollback",        "sagemaker",           "orig_sm_version",     1) >>

\* TFSCells with the clean-up cell placed before the optional second-model cell.
TFSCellsCleanupFirst == <<
    Step(448, "export",          "mobilenet_v2_140_224", "model_path",         1),
    Step(494, "export2",         "mobilenet_v2_035_224", "second_model_path",  1),
    Step(521, "tar",             "mobilenet",           "",                    1),
    Step(541, "upload",          "mobilenet.tar.gz",    "model_data",          1),
    Step(570, "deploy",          "model",               "predictor",           1),
    Step(599, "predict",         "predictor",           "result",              1),
    Step(689, "delete_endpoint", "predictor",           "",                    1),
    Step(652, "new_predictor",   "predictor",           "predictor2",          1),
    Step(656, "predict",         "predictor2",          "result",              1) >>

\* Using the SageMaker TensorFlow Serving Container
TFSCells == <<
    Step(448, "export",          "mobilenet_v2_140_224", "model_path",         1),
    Step(494, "export2",         "mobilenet_v2_035_224", "second_model_path",  1),
    Step(521, "tar",             "mobilenet",           "",                    1),
    Step(541, "upload",          "mobilenet.tar.gz",    "model_data",          1),
    Step(570, "deploy",          "model",               "predictor",           1),
    Step(599, "predict",         "predictor",           "result",              1),
    Step(652, "new_predictor",   "predictor",           "predictor2",          1),
    Step(656, "predict",         "predictor2",          "result",              1),
    Step(689, "delete_endpoint", "predictor",           "",                    1) >>

\* tensorflow_serving_using_elastic_inference_with_your_own_model
EICells == <<
    Step(131, "deploy",          "tensorflow_model",    "predictor",           1),
    Step(166, "predict",         "predictor",           "prediction",          1),
    Step(197, "delete_endpoint", "predictor",           "",                    1) >>

\* AutoGluon-Tabular in AWS Marketplace
AutoGluonCells == <<
    Step(191, "upload",          "train.csv",           "train_s3_path",       1),
    Step(195, "upload",          "test.csv",            "test_s3_path",        1),
    Step(199, "upload",          "X_test.csv",          "X_test_s3_path",      1),
    Step(259, "fit",             "algo",                "",                    1),
    Step(284, "deploy",          "algo",                "predictor",           1),
    Step(303, "predict",         "predictor",           "results",             1),
    Step(324, "predict",         "predictor",           "results",             1),
    Step(379, "transform",       "transformer",         "",                    1),
    Step(380, "wait",            "transformer",         "",                    1),
    Step(403, "delete_endpoint", "predictor",           "",                    1) >>

\* SageMaker Distributed Model Parallel (MNIST)
ModelParallelCells == <<
    Step(144, "experiment",      "SM-MP-DEMO",          "customer_churn_experiment", 1),
    Step(213, "fit",             "smd_mp_estimator",    "",                    1) >>

\* Preprocessing Images for Built-in Algorithms
PreprocessingCells == <<
    Step(391, "lst",             "data_structured",     "",                    1),
    Step(606, "bucket",          "builtin_bucket_name.pickle", "bucket_name",  1),
    Step(639, "upload",          "train.rec",           "data_s3_uri",         1),
    Step(652, "upload",          "val.rec",             "data_s3_uri",         1) >>

Notebooks == {"neo", "inf1", "tfs", "ei", "autogluon", "smp", "prep"}

Cells(n) ==
    CASE n = "neo"       -> NeoCells
      [] n = "inf1"      -> Inf1Cells
      [] n = "tfs"       -> TFSCells
      [] n = "ei"        -> EICells
      [] n = "autogluon" -> AutoGluonCells
      [] n = "smp"       -> ModelParallelCells
      [] n = "prep"      -> PreprocessingCells

PredictorNames == {"mnist_predictor", "optimized_predictor", "predictor", "predictor2"}

Finished == pc = Len(Cells(nb)) + 1
Cur == Cells(nb)[pc]
Ready(op) == kernel = "idle" /\ ~Finished /\ Cur.op = op

(***************************************************************************)
(* SDK calls.  A call starts a remote operation; a blocking call keeps the *)
(* kernel inside the call until the operation has finished.                *)
(***************************************************************************)
\* The remote object a step addresses: predict and delete_endpoint address the
\* endpoint their predictor variable is bound to.
Target(s) == IF s.op \in {"predict", "delete_endpoint"} THEN predictors[s.tgt] ELSE s.tgt

\* The remote operation the current step starts.
Call(s) == [op |-> s.op, tgt |-> Target(s), at |-> pc, it |-> i]

\* Blocking as it would be if fit were called with wait=False.
BlockingExceptFit(s) == s.op \notin {"transform", "fit"}

\* No call passes wait=False, so fit, compile_model, deploy, upload, predict and
\* delete_endpoint return when their operation has finished; transform may return
\* while its job runs, which is why transformer.wait() follows it.
Blocking(s) == s.op # "transform"

\* An entry of the log.  live tells whether what the call relies on was there when
\* the call was made: the endpoint in service (predict, delete_endpoint), the
\* experiment in the account (Experiment.create, Experiment.load), the pickle file
\* on disk (create_bucket).
Event(ev, c, live) ==
    [ev |-> ev, op |-> c.op, tgt |-> c.tgt, at |-> c.at, it |-> c.it, live |-> live]

\* Whether the remote object of a call is there when the call is made.
Live(c) == IF c.op \in {"predict", "delete_endpoint"} THEN c.tgt \in endpoints ELSE TRUE

\* The kernel moves past the current step (or to the next iteration of its loop).
Advance ==
    /\ last' = [op |-> Cur.op, ok |-> TRUE]
    /\ IF i + 1 < Cur.n THEN /\ i' = i + 1
                             /\ pc' = pc
                        ELSE /\ i' = 0
                             /\ pc' = pc + 1

\* An exception leaves the cell: the kernel stops where it is.
Stop ==
    /\ kernel' = "stopped"
    /\ last' = [op |-> Cur.op, ok |-> FALSE]
    /\ UNCHANGED <<pc, i>>

\* The assignment of the call's result: deploy binds a predictor to the new endpoint.
Bind(s) ==
    predictors' = IF s.op = "deploy" THEN [predictors EXCEPT ![s.var] = s.tgt] ELSE predictors

(***************************************************************************)
(* Estimators: the configuration a training job is created with.           *)
(***************************************************************************)
\* mnist_estimator = TensorFlow(..., instance_count=1, instance_type='ml.c4.xlarge')
neo_mnist_estimator ==
    [instance_count |-> 1, instance_type |-> "ml.c4.xlarge"]

\* mnist_estimator = TensorFlow(..., train_instance_count=2, train_instance_type='ml.c5.xlarge')
inf1_mnist_estimator ==
    [instance_count |-> 2, instance_type |-> "ml.c5.xlarge"]

\* algo = AlgorithmEstimator(..., instance_count=1, instance_type=compatible_training_instance_type)
algo ==
    [instance_count |-> 1, instance_type |-> "ml.m5.4xlarge"]

\* smd_mp_estimator with four model partitions and processes_per_host left at 2.
smd_mp_estimator_4_partitions ==
    [instance_count |-> 1, instance_type |-> "ml.p3.16xlarge",
     distribution |->
        [smdistributed |-> [modelparallel |->
            [enabled |-> TRUE,
             parameters |-> [microbatches |-> 4, partitions |-> 4, ddp |-> TRUE]]],
         mpi |-> [enabled |-> TRUE, processes_per_host |-> 2]]]

\* smd_mp_estimator = PyTorch(..., distribution={...})
smd_mp_estimator ==
    [instance_count |-> 1, instance_type |-> "ml.p3.16xlarge",
     distribution |->
        [smdistributed |-> [modelparallel |->
            [enabled |-> TRUE,
             parameters |-> [microbatches |-> 4, partitions |-> 2, ddp |-> TRUE]]],
         mpi |-> [enabled |-> TRUE, processes_per_host |-> 2]]]

\* The estimator whose fit the notebook calls.
Estimator(n) ==
    CASE n = "neo"       -> neo_mnist_estimator
      [] n = "inf1"      -> inf1_mnist_estimator
      [] n = "autogluon" -> algo
      [] n = "smp"       -> smd_mp_estimator

\* estimator.fit(...) creates a training job with the estimator's configuration.
TrainingJob(c) == [estimator |-> c.tgt, config |-> Estimator(nb)]

(***************************************************************************)
(* TensorFlow Serving notebook: the model archive and what the endpoint    *)
(* serves.                                                                 *)
(***************************************************************************)
model_name        == "mobilenet_v2_140_224"
second_model_name == "mobilenet_v2_035_224"
NoArchive         == {}

\* sample_utils.tfhub_to_savedmodel(model_name, export_path): exports the model as a
\* SavedModel named model_name under export_path
tfhub_to_savedmodel(name, export_path) == export_path \cup {name}

\* env with the second model's name as the default.
envSecondModel == [SAGEMAKER_TFS_DEFAULT_MODEL_NAME |-> "mobilenet_v2_035_224"]

\* env = {'SAGEMAKER_TFS_DEFAULT_MODEL_NAME': 'mobilenet_v2_140_224'}
env == [SAGEMAKER_TFS_DEFAULT_MODEL_NAME |-> "mobilenet_v2_140_224"]

\* Model(model_data=model_data, ..., env=env).deploy(...): the endpoint serves the
\* models of the uploaded archive
Serving(endpoint) ==
    [endpoint |-> endpoint, models |-> s3_model,
     default |-> env.SAGEMAKER_TFS_DEFAULT_MODEL_NAME]

\* Whether the endpoint a predict call addresses serves the model the predictor names
\* (predictor2 names the second model; predictor names none and gets the default).
ModelServed(c) ==
    (nb = "tfs" /\ c.op = "predict" /\ Cells(nb)[c.at].tgt = "predictor2")
        => \E s \in served : s.endpoint = c.tgt /\ second_model_name \in s.models

\* What a finished remote operation leaves behind in the TensorFlow Serving notebook.
TfsEffect(c) ==
    IF nb # "tfs" THEN UNCHANGED tfsVars
    ELSE /\ s3_model' = IF c.op = "upload" THEN archive ELSE s3_model
         /\ served' = CASE c.op = "deploy"          -> served \cup {Serving(c.tgt)}
                        [] c.op = "delete_endpoint" -> {s \in served : s.endpoint # c.tgt}
                        [] OTHER                    -> served
         /\ UNCHANGED <<mobilenet, archive>>

Issue(op) ==
    /\ Ready(op)
    /\ LET c == Call(Cur) IN
       /\ running' = running \cup {c}
       /\ jobs' = IF op = "fit" THEN jobs \cup {TrainingJob(c)} ELSE jobs
       /\ IF Blocking(Cur)
          THEN /\ kernel' = "blocked"
               /\ blocked_on' = c
               /\ log' = Append(log, Event("issue", c, Live(c)))
               /\ UNCHANGED <<pc, i, last, predictors>>
          ELSE /\ log' = log \o <<Event("issue", c, Live(c)), Event("return", c, Live(c))>>
               /\ Advance
               /\ Bind(Cur)
               /\ UNCHANGED <<kernel, blocked_on>>
    /\ UNCHANGED <<nb, endpoints, expVars, bucketVars, lstVars, sdkVars, execs, tfsVars>>

\* A remote operation finishes; the call returns if the kernel is inside it.
Done(op) ==
    \E c \in running :
        /\ c.op = op
        /\ Live(c)
        /\ ModelServed(c)
        /\ TfsEffect(c)
        /\ running' = running \ {c}
        /\ endpoints' = CASE op = "deploy"          -> endpoints \cup {c.tgt}
                          [] op = "delete_endpoint" -> endpoints \ {c.tgt}
                          [] OTHER                  -> endpoints
        /\ IF blocked_on = c
           THEN /\ kernel' = "idle"
                /\ blocked_on' = NoCall
                /\ log' = Append(log, Event("return", c, TRUE))
                /\ Advance
                /\ IF Cur.op = op THEN Bind(Cur) ELSE UNCHANGED predictors
           ELSE UNCHANGED <<kernelVars, log>>
        /\ UNCHANGED <<nb, expVars, bucketVars, lstVars, sdkVars, execs, jobs>>

UploadData            == Issue("upload")
UploadDataReturns     == Done("upload")
Fit                   == Issue("fit")
FitReturns            == Done("fit")
CompileModel          == Issue("compile_model")
CompileModelReturns   == Done("compile_model")
Deploy                == Issue("deploy")
DeployReturns         == Done("deploy")
Predict               == Issue("predict")
PredictReturns        == Done("predict")
DeleteEndpoint        == Issue("delete_endpoint")
DeleteEndpointReturns == Done("delete_endpoint")
Transform             == Issue("transform")
TransformJobCompletes == Done("transform")

\* transformer.wait(): blocks while the transform job runs
Wait ==
    /\ Ready("wait")
    /\ IF \E c \in running : c.op = "transform" /\ c.tgt = Cur.tgt
       THEN /\ kernel' = "blocked"
            /\ blocked_on' = CHOOSE c \in running : c.op = "transform" /\ c.tgt = Cur.tgt
            /\ UNCHANGED <<pc, i, last>>
       ELSE /\ Advance
            /\ UNCHANGED <<kernel, blocked_on>>
    /\ UNCHANGED <<nb, predictors, remoteVars, log, expVars, bucketVars, lstVars, sdkVars, execs, tfsVars, jobs>>

\* predictor2 = Predictor(predictor.endpoint, ...): a second handle on the same endpoint
NewPredictor ==
    /\ Ready("new_predictor")
    /\ predictors' = [predictors EXCEPT ![Cur.var] = predictors[Cur.tgt]]
    /\ Advance
    /\ UNCHANGED <<nb, kernel, blocked_on, remoteVars, log, expVars, bucketVars, lstVars, sdkVars, execs, tfsVars, jobs>>

\* model_path = sample_utils.tfhub_to_savedmodel(model_name, export_path)
ExportCell ==
    /\ Ready("export")
    /\ mobilenet' = tfhub_to_savedmodel(model_name, mobilenet)
    /\ Advance
    /\ UNCHANGED <<nb, kernel, blocked_on, predictors, remoteVars, log, expVars, bucketVars,
                   lstVars, sdkVars, execs, archive, s3_model, served, jobs>>

\* second_model_path = sample_utils.tfhub_to_savedmodel(second_model_name, export_path)
SecondModelCell ==
    /\ Ready("export2")
    /\ mobilenet' = tfhub_to_savedmodel(second_model_name, mobilenet)
    /\ Advance
    /\ UNCHANGED <<nb, kernel, blocked_on, predictors, remoteVars, log, expVars, bucketVars,
                   lstVars, sdkVars, execs, archive, s3_model, served, jobs>>

\* The cells under an "Optional:" heading: the second-model cell and the cell that
\* predicts with the second model (two statements that call the SDK).
OptionalCells == {"export2", "new_predictor"}

\* The user leaves an optional cell out.
SkipOptionalCell ==
    /\ kernel = "idle"
    /\ ~Finished
    /\ Cur.op \in OptionalCells
    /\ pc' = pc + (IF Cur.op = "new_predictor" THEN 2 ELSE 1)
    /\ UNCHANGED <<nb, kernel, blocked_on, i, last, predictors, remoteVars, log, expVars,
                   bucketVars, lstVars, sdkVars, execs, tfsVars, jobs>>

\* !tar -C "$PWD" -czf mobilenet.tar.gz mobilenet/
TarCell ==
    /\ Ready("tar")
    /\ archive' = mobilenet
    /\ Advance
    /\ UNCHANGED <<nb, kernel, blocked_on, predictors, remoteVars, log, expVars, bucketVars,
                   lstVars, sdkVars, execs, mobilenet, s3_model, served, jobs>>

\* Raises as it would be with a retry loop around the call: the kernel issues it again.
RaisesAndRetries ==
    /\ kernel = "blocked"
    /\ blocked_on \in running
    /\ running' = running \ {blocked_on}
    /\ kernel' = "idle"
    /\ blocked_on' = NoCall
    /\ log' = Append(log, Event("raise", blocked_on, Live(blocked_on)))
    /\ UNCHANGED <<nb, pc, i, last, predictors, endpoints, expVars, bucketVars, lstVars, sdkVars,
                   execs, tfsVars, jobs>>

\* Raises as it would be with the call wrapped in try/except: the error is swallowed
\* and the kernel goes on with the next statement.
RaisesAndContinues ==
    /\ kernel = "blocked"
    /\ blocked_on \in running
    /\ running' = running \ {blocked_on}
    /\ kernel' = "idle"
    /\ blocked_on' = NoCall
    /\ log' = Append(log, Event("raise", blocked_on, Live(blocked_on)))
    /\ Advance
    /\ UNCHANGED <<nb, predictors, endpoints, expVars, bucketVars, lstVars, sdkVars, execs,
                   tfsVars, jobs>>

\* The SDK call the kernel is inside raises: the cell stops and no later cell runs.
Raises ==
    /\ kernel = "blocked"
    /\ blocked_on \in running
    /\ running' = running \ {blocked_on}
    /\ Stop
    /\ blocked_on' = NoCall
    /\ log' = Append(log, Event("raise", blocked_on, Live(blocked_on)))
    /\ UNCHANGED <<nb, predictors, endpoints, expVars, bucketVars, lstVars, sdkVars, execs, tfsVars, jobs>>

(***************************************************************************)
(* Inf1 notebook: the cells that switch the SageMaker SDK version.         *)
(***************************************************************************)
\* `import sagemaker`: the module is loaded once per kernel, from the installed package
Import == IF sm_running = NoVersion THEN sm_installed ELSE sm_running

\* NeedsDowngrade as it would be without the version test.
AlwaysDowngrade(version) == TRUE

\* sagemaker.__version__ >= '2', a comparison of str
NeedsDowngrade(version) == StrGE(version, <<"2">>)

\* %pip install "sagemaker>=1.14.2,<2": keeps a version that meets the requirement,
\* else installs one the index offers
PipInstallRequirement(installed) ==
    IF Requirement(installed) THEN {installed} ELSE {v \in Index : Requirement(v)}

SetupCell ==
    /\ Ready("setup")
    /\ sm_running' = Import
    /\ IF NeedsDowngrade(VersionStr(Import))
       THEN /\ orig_file' = VersionStr(Import)
            /\ sm_installed' \in PipInstallRequirement(sm_installed)
       ELSE UNCHANGED <<orig_file, sm_installed>>
    /\ Advance
    /\ UNCHANGED <<nb, kernel, blocked_on, predictors, remoteVars, log, expVars, bucketVars,
                   lstVars, sm_initial, os_imported, execs, tfsVars, jobs>>

\* import os / import sagemaker / ... of the session cell
ImportsCell ==
    /\ Ready("imports")
    /\ os_imported' = TRUE
    /\ sm_running' = Import
    /\ Advance
    /\ UNCHANGED <<nb, kernel, blocked_on, predictors, remoteVars, log, expVars, bucketVars,
                   lstVars, sm_installed, sm_initial, orig_file, execs, tfsVars, jobs>>

\* The rollback cell reads the names os and sagemaker; an unbound name raises NameError.
RollbackCell ==
    /\ Ready("rollback")
    /\ IF ~os_imported
       THEN /\ Stop
            /\ UNCHANGED <<sm_installed, orig_file>>
       ELSE IF orig_file = NoFile
       THEN /\ Advance
            /\ UNCHANGED <<kernel, sm_installed, orig_file>>
       ELSE IF sm_running = NoVersion
       THEN /\ Stop
            /\ UNCHANGED <<sm_installed, orig_file>>
       ELSE /\ sm_installed' = ParseVersion(orig_file)
            /\ orig_file' = NoFile
            /\ Advance
            /\ UNCHANGED kernel
    /\ UNCHANGED <<nb, blocked_on, predictors, remoteVars, log, expVars, bucketVars,
                   lstVars, sm_running, sm_initial, os_imported, execs, tfsVars, jobs>>

(***************************************************************************)
(* Model-parallel notebook: the experiment cell.                           *)
(***************************************************************************)
ExperimentNames == {"SM-MP-DEMO", "other-experiment"}

\* ExperimentIsNew as it would be if the cell created the experiment on every run.
ExperimentAlwaysNew(experiment_name, all_experiment_names) == TRUE

\* experiment_name not in all_experiment_names
ExperimentIsNew(experiment_name, all_experiment_names) ==
    experiment_name \notin all_experiment_names

SdkCall(op, tgt) == [op |-> op, tgt |-> tgt, at |-> pc, it |-> 0]

\* Experiment.list(), then Experiment.create or Experiment.load, then Trial.create;
\* each of create, load and Trial.create may raise.
ExperimentCell ==
    /\ Ready("experiment")
    /\ LET experiment_name == Cur.tgt
           all_experiment_names == experiments
           isNew  == ExperimentIsNew(experiment_name, all_experiment_names)
           c      == SdkCall(IF isNew THEN "Experiment.create" ELSE "Experiment.load",
                             experiment_name)
           t      == SdkCall("Trial.create", experiment_name)
           exists == experiment_name \in experiments
       IN \E outcome \in {"ok", "raises", "trial_raises"} :
            IF outcome = "raises"
            THEN /\ log' = log \o <<Event("issue", c, exists), Event("raise", c, exists)>>
                 /\ Stop
                 /\ UNCHANGED expVars
            ELSE /\ experiments' = IF isNew THEN experiments \cup {experiment_name}
                                            ELSE experiments
                 /\ customer_churn_experiment' = experiment_name
                 /\ IF outcome = "trial_raises"
                    THEN /\ log' = log \o <<Event("issue", c, exists), Event("return", c, exists),
                                            Event("issue", t, TRUE), Event("raise", t, TRUE)>>
                         /\ Stop
                    ELSE /\ log' = log \o <<Event("issue", c, exists), Event("return", c, exists),
                                            Event("issue", t, TRUE), Event("return", t, TRUE)>>
                         /\ Advance
                         /\ UNCHANGED kernel
    /\ UNCHANGED <<nb, blocked_on, predictors, remoteVars, bucketVars, lstVars, sdkVars, execs, tfsVars, jobs>>

(***************************************************************************)
(* Preprocessing notebook: the bucket cell.                                *)
(***************************************************************************)
NoBucket == <<>>
\* f'sagemaker-builtin-ic-{str(uuid.uuid4())}': the k-th uuid drawn is a fresh value
NewBucketName(k) == <<"sagemaker-builtin-ic", k>>

\* PickleExists as it would be if the cell looked for the file under another name.
PickleNeverExists(file) == FALSE

\* pathlib.Path('pickled_data/builtin_bucket_name.pickle').exists()
PickleExists(file) == file # NoBucket

BucketCell ==
    /\ Ready("bucket")
    /\ IF PickleExists(pickle)
       THEN /\ bucket_name' = pickle
            /\ log' = Append(log, Event("return", SdkCall("pickle.load", pickle), TRUE))
            /\ Advance
            /\ UNCHANGED <<kernel, pickle, buckets, uuids>>
       ELSE LET name == NewBucketName(uuids + 1)
                c    == SdkCall("create_bucket", name)
            IN /\ bucket_name' = name
               /\ uuids' = uuids + 1
               /\ \E ok \in BOOLEAN :
                    IF ok
                    THEN /\ buckets' = buckets \cup {name}
                         /\ pickle' = name
                         /\ log' = log \o <<Event("issue", c, pickle # NoBucket),
                                            Event("return", c, pickle # NoBucket)>>
                         /\ Advance
                         /\ UNCHANGED kernel
                    ELSE /\ log' = log \o <<Event("issue", c, pickle # NoBucket),
                                            Event("raise", c, pickle # NoBucket)>>
                         /\ Stop
                         /\ UNCHANGED <<buckets, pickle>>
    /\ UNCHANGED <<nb, blocked_on, predictors, remoteVars, expVars, lstVars, sdkVars, execs, tfsVars, jobs>>

(***************************************************************************)
(* Preprocessing notebook: the manual .lst generation cell.                *)
(***************************************************************************)
Cat == <<"c", "a", "t">>
Dog == <<"d", "o", "g">>

\* category_labels.values(), as loaded from pickled_data/category_labels.pickle
CategoryLabels == {Dog, Cat}

\* ./data_structured/<split>/<category>/<file>.jpg
Image(split, category, file) == [split |-> split, category |-> category, file |-> file]
AllImages == { Image("train", Cat, "a.jpg"), Image("train", Dog, "b.jpg"),
               Image("val", Cat, "c.jpg") }
Splits == {"train", "val"}

\* The enumerations of a finite set: the orders in which rglob may yield the files.
Orders(S) == {f \in [1..Cardinality(S) -> S] : \A x \in S : \E k \in DOMAIN f : f[k] = x}

\* sorted(names)
Sorted(names) ==
    CHOOSE f \in Orders(names) : \A j, k \in DOMAIN f : j < k => StrLess(f[j], f[k])

\* category_ids as it would be without sorted(): the ids follow the order in which the
\* pickled dictionary yields its values.
category_ids_unsorted ==
    [name \in CategoryLabels |-> IF name = Dog THEN 0 ELSE 1]

\* {name: idx for idx, name in enumerate(sorted(category_labels.values()))}
category_ids ==
    [name \in CategoryLabels |->
        (CHOOSE k \in 1..Cardinality(CategoryLabels) : Sorted(CategoryLabels)[k] = name) - 1]

\* f'{idx:010}': the decimal digits, padded with zeros to ten characters
ImageId(idx) ==
    LET d == Digits(idx)
    IN  IF Len(d) >= 10 THEN d ELSE [k \in 1..(10 - Len(d)) |-> "0"] \o d

\* f"{image_id}\t{category}\t{path}\n" for the idx-th path rglob yields
Line(idx, p) == [image_id |-> ImageId(idx), category |-> category_ids[p.category], path |-> p]

\* The lines one run of the loop appends to <split>.lst
LinesOf(image_paths, split) ==
    LET all == [k \in DOMAIN image_paths |-> Line(k - 1, image_paths[k])]
        InSplit(l) == l.path.split = split
    IN  SelectSeq(all, InSplit)

\* open(f'{split}.lst', 'a'): the lines are written after what the file holds
WriteLst(old, new) == old \o new

LstCell ==
    /\ Ready("lst")
    /\ \E image_paths \in Orders(images) :
         lst' = [split \in Splits |-> WriteLst(lst[split], LinesOf(image_paths, split))]
    /\ Advance
    /\ UNCHANGED <<nb, kernel, blocked_on, predictors, remoteVars, log, expVars, bucketVars,
                   images, sdkVars, execs, tfsVars, jobs>>

(***************************************************************************)
(* What the user does besides running the next cell.                       *)
(***************************************************************************)
\* The cells the user may run again by hand.
CellOps == {"setup", "imports", "rollback", "experiment", "bucket", "lst"}

\* The user runs a cell of the notebook out of order (or again).
UserRunsCell ==
    /\ kernel \in {"idle", "stopped"}
    /\ execs < MaxExecs
    /\ \E k \in 1..Len(Cells(nb)) :
         /\ Cells(nb)[k].op \in CellOps
         /\ pc' = k
    /\ kernel' = "idle"
    /\ i' = 0
    /\ execs' = execs + 1
    /\ UNCHANGED <<nb, blocked_on, last, predictors, remoteVars, log, expVars, bucketVars,
                   lstVars, sdkVars, tfsVars, jobs>>

\* Restart of the kernel: every binding and imported module is gone, files and the
\* installed packages stay.
KernelRestart ==
    /\ kernel \in {"idle", "stopped"}
    /\ execs < MaxExecs
    /\ execs' = execs + 1
    /\ kernel' = "idle"
    /\ last' = NoStep
    /\ predictors' = [p \in PredictorNames |-> NoName]
    /\ customer_churn_experiment' = NoName
    /\ bucket_name' = NoBucket
    /\ sm_running' = NoVersion
    /\ os_imported' = FALSE
    /\ UNCHANGED <<nb, pc, blocked_on, i, remoteVars, log, experiments, pickle, buckets, uuids,
                   lstVars, sm_installed, sm_initial, orig_file, tfsVars, jobs>>

(***************************************************************************)
(* Initial states and specifications.                                      *)
(***************************************************************************)
InitKernel ==
    /\ pc = 1
    /\ kernel = "idle"
    /\ blocked_on = NoCall
    /\ i = 0
    /\ last = NoStep
    /\ predictors = [p \in PredictorNames |-> NoName]
    /\ running = {}
    /\ endpoints = {}
    /\ log = <<>>
    /\ execs = 0

\* What the session finds: the experiments of the account, the bucket and pickle file
\* an earlier session may have left, the images, the installed SDK.
InitWorld ==
    /\ experiments \in (IF nb = "smp" THEN SUBSET ExperimentNames ELSE {{}})
    /\ customer_churn_experiment = NoName
    /\ uuids \in (IF nb = "prep" THEN {0, 1} ELSE {0})
    /\ buckets = {NewBucketName(k) : k \in 1..uuids}
    /\ pickle \in {NoBucket} \cup buckets
    /\ bucket_name = NoBucket
    /\ images \in (IF nb = "prep" THEN (SUBSET AllImages) \ {{}} ELSE {{}})
    /\ lst = [split \in Splits |-> <<>>]
    /\ sm_installed \in (IF nb = "inf1" THEN Index ELSE {NoVersion})
    /\ sm_initial = sm_installed
    /\ sm_running = NoVersion
    /\ os_imported = FALSE
    /\ orig_file = NoFile
    /\ mobilenet = {}
    /\ archive = NoArchive
    /\ s3_model = NoArchive
    /\ served = {}
    /\ jobs = {}

\* Run All: the cells of one notebook, top to bottom, once.
Init ==
    /\ nb \in Notebooks
    /\ InitKernel
    /\ InitWorld

Next ==
    \/ UploadData
    \/ UploadDataReturns
    \/ Fit
    \/ FitReturns
    \/ CompileModel
    \/ CompileModelReturns
    \/ Deploy
    \/ DeployReturns
    \/ Predict
    \/ PredictReturns
    \/ DeleteEndpoint
    \/ DeleteEndpointReturns
    \/ Transform
    \/ TransformJobCompletes
    \/ Wait
    \/ NewPredictor
    \/ ExportCell
    \/ SecondModelCell
    \/ SkipOptionalCell
    \/ TarCell
    \/ Raises
    \/ SetupCell
    \/ ImportsCell
    \/ RollbackCell
    \/ ExperimentCell
    \/ BucketCell
    \/ LstCell

Spec == Init /\ [][Next]_vars

\* A session in which the user runs the version, experiment, bucket and .lst cells
\* by hand, in any order and any number of times, and restarts the kernel.
InitCells ==
    /\ nb \in {"inf1", "smp", "prep"}
    /\ InitKernel
    /\ InitWorld

NextCells ==
    \/ UserRunsCell
    \/ KernelRestart
    \/ SetupCell
    \/ ImportsCell
    \/ RollbackCell
    \/ ExperimentCell
    \/ BucketCell
    \/ LstCell

SpecCells == InitCells /\ [][NextCells]_vars

(***************************************************************************)
(* Properties of a top-to-bottom run (Spec).                               *)
(***************************************************************************)
Events(ev, op) == {k \in DOMAIN log : log[k].ev = ev /\ log[k].op = op}
EventsOn(ev, op, tgt) == {k \in Events(ev, op) : log[k].tgt = tgt}
NoRaise == \A k \in DOMAIN log : log[k].ev # "raise"
Deploys(n) == \E k \in DOMAIN Cells(n) : Cells(n)[k].op = "deploy"

\* C1: in every notebook that calls deploy, when the cells have run once from top to
\* bottom and no SDK call raised, every endpoint a deploy call created has been
\* deleted by a later delete_endpoint call and no endpoint is in service.
C1_NoEndpointLeft ==
    (Deploys(nb) /\ Finished /\ kernel = "idle" /\ NoRaise) =>
        /\ endpoints = {}
        /\ \A d \in Events("return", "deploy") :
             \E x \in EventsOn("return", "delete_endpoint", log[d].tgt) : d < x

\* C1 witness: the Neo notebook has finished, both its deploy calls returned, and no
\* endpoint is left.
C1_Witness ==
    /\ nb = "neo" /\ Finished /\ NoRaise
    /\ Cardinality(Events("return", "deploy")) = 2
    /\ endpoints = {}

\* The remote calls the notebooks make through the SDK.
RemoteOps == {"upload", "fit", "compile_model", "deploy", "predict", "transform",
              "delete_endpoint"}

\* C2: execution is sequential: at most one remote operation is outstanding at any
\* moment, and whenever the kernel is about to issue a remote call, every earlier
\* operation has finished.
C2_Sequential ==
    /\ Cardinality(running) <= 1
    /\ (kernel = "idle" /\ ~Finished /\ Cur.op \in RemoteOps) => running = {}

\* C2 witness: the transform call returned, its job is still running, and the kernel
\* is blocked in transformer.wait().
C2_Witness ==
    /\ nb = "autogluon" /\ kernel = "blocked" /\ Cur.op = "wait"
    /\ \E c \in running : c.op = "transform"

\* The operations the notebooks issue once per target.
OnceOps == {"fit", "compile_model", "deploy", "delete_endpoint", "create_bucket", "upload",
            "Experiment.create"}

\* C3: no retry and no recovery: each of fit, compile_model, deploy, delete_endpoint,
\* create_bucket, upload and Experiment.create is issued at most once for its target,
\* and a call that raised is the last SDK call the notebook makes.
C3_NoRetry ==
    /\ \A j, k \in DOMAIN log :
         (j < k /\ log[j].ev = "issue" /\ log[k].ev = "issue"
                /\ log[j].op \in OnceOps /\ log[j].op = log[k].op)
            => log[j].tgt # log[k].tgt
    /\ \A k \in DOMAIN log : log[k].ev = "raise" => k = Len(log)

\* C3 witness: a fit call raised and the kernel stopped there.
C3_Witness ==
    /\ kernel = "stopped"
    /\ log # <<>>
    /\ log[Len(log)].ev = "raise"
    /\ log[Len(log)].op = "fit"

\* Every issue of (op2, tgt2) comes after a return of (op1, tgt1).
Precedes(op1, tgt1, op2, tgt2) ==
    \A k \in EventsOn("issue", op2, tgt2) : \E j \in EventsOn("return", op1, tgt1) : j < k

\* C4: in the Neo and Inf1 notebooks compile_model is called only after fit returned on
\* the same estimator, deploy of the optimized estimator only after compile_model
\* returned, and upload_data < fit < compile_model < deploy(optimized) <
\* predict(optimized) < delete_endpoint(optimized).
C4_CompileOrder ==
    nb \in {"neo", "inf1"} =>
        /\ Precedes("upload", "data", "fit", "mnist_estimator")
        /\ Precedes("fit", "mnist_estimator", "compile_model", "mnist_estimator")
        /\ Precedes("compile_model", "mnist_estimator", "deploy", "optimized_estimator")
        /\ Precedes("deploy", "optimized_estimator", "predict", "optimized_estimator")
        /\ Precedes("predict", "optimized_estimator", "delete_endpoint", "optimized_estimator")

\* C4 witness: the Inf1 notebook reached the deletion of the optimized endpoint.
C4_Witness ==
    /\ nb = "inf1"
    /\ EventsOn("return", "delete_endpoint", "optimized_estimator") # {}
    /\ EventsOn("return", "compile_model", "mnist_estimator") # {}

\* C5: every predict call addresses an endpoint that is in service when the call is
\* issued (deployed and not yet deleted), predictor2 of the TensorFlow Serving
\* notebook included.
C5_PredictOnLiveEndpoint ==
    \A k \in Events("issue", "predict") : log[k].live /\ log[k].tgt # NoName

\* C5 witness: predictor2 predicts on predictor's endpoint, which is still in service.
C5_Witness ==
    /\ nb = "tfs" /\ kernel = "blocked" /\ Cur.tgt = "predictor2"
    /\ blocked_on.op = "predict" /\ blocked_on.tgt = "model"
    /\ "model" \in endpoints

(***************************************************************************)
(* Properties of the cells the user runs by hand (SpecCells).              *)
(***************************************************************************)
Ran(op) == last = [op |-> op, ok |-> TRUE]

\* C6: the experiment cell loads "SM-MP-DEMO" if it exists and creates it otherwise:
\* Experiment.create is called only when the name is absent from the account and
\* Experiment.load only when it is present, so over any number of executions the
\* experiment is created at most once, and customer_churn_experiment names
\* "SM-MP-DEMO" whenever it is bound.
C6_ExperimentGetOrCreate ==
    /\ \A k \in Events("issue", "Experiment.create") : ~log[k].live
    /\ \A k \in Events("issue", "Experiment.load") : log[k].live
    /\ Cardinality(Events("return", "Experiment.create")) <= 1
    /\ customer_churn_experiment \in {NoName, "SM-MP-DEMO"}
    /\ Ran("experiment") =>
         /\ customer_churn_experiment = "SM-MP-DEMO"
         /\ "SM-MP-DEMO" \in experiments

\* C6 witness: the cell created the experiment in one execution and loaded it in a
\* later one.
C6_Witness ==
    /\ Ran("experiment")
    /\ \E c \in Events("return", "Experiment.create") :
         \E l \in Events("return", "Experiment.load") : c < l

\* C7: the bucket cell is idempotent: s3.create_bucket is called only when the pickle
\* file does not exist, so a sequence of successful executions creates at most one
\* bucket, and after every successful execution bucket_name is the name the pickle
\* file holds.
C7_BucketIdempotent ==
    /\ \A k \in Events("issue", "create_bucket") : ~log[k].live
    /\ NoRaise => Cardinality(Events("return", "create_bucket")) <= 1
    /\ Ran("bucket") => (pickle # NoBucket /\ bucket_name = pickle /\ pickle \in buckets)

\* C7 witness: one execution created the bucket and a later one read its name from
\* the pickle file.
C7_Witness ==
    /\ Ran("bucket") /\ NoRaise
    /\ \E c \in Events("return", "create_bucket") :
         \E l \in EventsOn("return", "pickle.load", log[c].tgt) : c < l
    /\ bucket_name = pickle

\* The lines of <split>.lst that name an image.
LinesNaming(img) == {k \in DOMAIN lst[img.split] : lst[img.split][k].path = img}

\* C8: the manually generated manifests list all the images, each with a unique index:
\* once the manual generation cell has run, no two lines of train.lst (or of val.lst)
\* carry the same index and each image appears on exactly one line.
C8_UniqueIndex ==
    (\E split \in Splits : lst[split] # <<>>) =>
        /\ \A split \in Splits : \A j, k \in DOMAIN lst[split] :
             j # k => lst[split][j].image_id # lst[split][k].image_id
        /\ \A img \in images : Cardinality(LinesNaming(img)) = 1

\* An execution of the setup cell.
SetupStep == Ready("setup") /\ execs' = execs /\ last' = [op |-> "setup", ok |-> TRUE]

\* C9: the setup cell installs SDK 1.x: run with an SDK whose major version is 2 or
\* higher it records that version in orig_sm_version.txt and installs a version in
\* [1.14.2, 2); run with major version 1 it writes no file and installs nothing.
C9_SetupInstalls1x ==
    [][SetupStep =>
          IF Import[1] >= 2
          THEN /\ orig_file' = VersionStr(Import)
               /\ Requirement(sm_installed')
          ELSE UNCHANGED <<orig_file, sm_installed>>]_vars

C11_DefaultModelServed ==
    \A s \in served :
        s.endpoint \in endpoints =>
            /\ s.default \in s.models
            /\ s.models = archive
            /\ s.models \subseteq mobilenet

\* C11 witness: the endpoint is in service with both models in its archive, so a
\* request without a model name has two models it could go to.
C11_Witness ==
    \E s \in served :
        /\ s.endpoint \in endpoints
        /\ s.models = {model_name, second_model_name}
        /\ s.default = model_name

\* C12: every training job the model-parallel notebook creates has a
\* processes_per_host that is a multiple of the number of model partitions.
C12_ProcessesMultipleOfPartitions ==
    \A j \in jobs :
        j.estimator = "smd_mp_estimator" =>
            j.config.distribution.mpi.processes_per_host
                % j.config.distribution.smdistributed.modelparallel.parameters.partitions = 0

\* C12 witness: the model-parallel training job has been created.
C12_Witness ==
    \E j \in jobs :
        /\ j.estimator = "smd_mp_estimator"
        /\ j.config.distribution.mpi.enabled
        /\ j.config.distribution.smdistributed.modelparallel.enabled

\* C13: every training job the Neo notebook creates runs on two ml.c4.xlarge
\* instances.
C13_TwoInstances ==
    \A j \in jobs :
        nb = "neo" =>
            /\ j.config.instance_count = 2
            /\ j.config.instance_type = "ml.c4.xlarge"

\* One execution of the manual .LST cell.
LstStep == Ready("lst") /\ execs' = execs /\ last' = [op |-> "lst", ok |-> TRUE]

\* The position (from 0) of a name in the sorted list of the category label values.
PositionInSorted(name) == Cardinality({c \in CategoryLabels : StrLess(c, name)})

\* The lines an execution has added to a file.
Appended(old, new) == SubSeq(new, Len(old) + 1, Len(new))

\* C14: one execution of the manual .LST cell keeps what the files held and, for every
\* .jpg file under ./data_structured, appends exactly one line naming it to
\* <split>.lst, <split> being the third-from-last component of its path, and no line
\* naming it to the file of another split; the line's class field is the position of
\* the parent-directory name in the sorted list of the category label values.
C14_OneLinePerImage ==
    [][LstStep =>
        \A img \in images : \A split \in Splits :
            LET Names(l) == l.path = img
                mine == SelectSeq(Appended(lst[split], lst'[split]), Names)
            IN  /\ SubSeq(lst'[split], 1, Len(lst[split])) = lst[split]
                /\ Len(mine) = (IF split = img.split THEN 1 ELSE 0)
                /\ \A k \in DOMAIN mine :
                       mine[k].category = PositionInSorted(img.category)]_vars

\* C14 witness: the cell has run over images of both splits and both categories; a
\* line of train.lst carries class 1 and val.lst has its line too.
C14_Witness ==
    /\ Ran("lst")
    /\ images = AllImages
    /\ \E k \in DOMAIN lst["train"] :
           lst["train"][k].category = 1 /\ lst["train"][k].path.category = Dog
    /\ \E k \in DOMAIN lst["val"] : lst["val"][k].path.split = "val"

\* The endpoint's deploy call returned before log entry k and no delete_endpoint call
\* for it was made in between.
DeployedAt(e, k) ==
    \E d \in EventsOn("return", "deploy", e) :
        /\ d < k
        /\ \A x \in EventsOn("issue", "delete_endpoint", e) : ~(d < x /\ x < k)

\* The kernel is at the cell that made the call of log entry k: at the call's statement,
\* or at the transformer.wait() that follows transform in the same cell.
AtCellOf(k) ==
    \/ pc = log[k].at
    \/ ~Finished /\ Cur.op = "wait" /\ Cur.tgt = log[k].tgt /\ pc = log[k].at + 1

\* C15: when an SDK call made between a successful deploy and the corresponding
\* delete_endpoint raises, execution stops at that cell, no delete_endpoint for the
\* endpoint is executed afterwards and the endpoint stays in service.
C15_RaiseLeavesEndpoint ==
    \A k \in DOMAIN log : \A e \in {log[d].tgt : d \in Events("return", "deploy")} :
        (log[k].ev = "raise" /\ log[k].op \notin {"deploy", "delete_endpoint"}
                             /\ DeployedAt(e, k))
            => /\ kernel = "stopped"
               /\ AtCellOf(k)
               /\ k = Len(log)
               /\ \A x \in EventsOn("issue", "delete_endpoint", e) : x < k
               /\ e \in endpoints

\* C15 witness: in the Elastic Inference notebook predict raised after deploy returned;
\* the kernel stopped at the predict cell and the endpoint is in service.
C15_Witness ==
    /\ nb = "ei"
    /\ kernel = "stopped"
    /\ log # <<>>
    /\ log[Len(log)].ev = "raise" /\ log[Len(log)].op = "predict"
    /\ DeployedAt("tensorflow_model", Len(log))
    /\ "tensorflow_model" \in endpoints
====
